---------------------------- MODULE Spec2Model ----------------------------
(***************************************************************************)
(* RetireSafe (dvaugha/retire): the financial projection engine of         *)
(* src/src/App.tsx.                                                        *)
(*                                                                         *)
(* Numbers.  Money is an integer number of dollars, a rate is an integer   *)
(* percentage, the Social-Security multiplier is an integer number of      *)
(* hundredths (0.70 is 70).  x * (1 + pct/100) is Grow(x, pct); the rates  *)
(* and amounts the specifications draw make every division exact, so the   *)
(* integer arithmetic is the arithmetic of the source on those inputs.     *)
(* The one snapshot with rates of 3, 5 and 7 percent (RunwayScenario) has   *)
(* each product rounded down to the dollar: a deviation of less than a     *)
(* dollar a year, compounded, against balances of several hundred          *)
(* thousand.                                                               *)
(***************************************************************************)
EXTENDS Integers, Sequences, FiniteSets, TLC

VARIABLES data, fn, pc, loc, ret,
          store, showSplash, saved, effects, updates, clock, edits

vars == <<data, fn, pc, loc, ret,
          store, showSplash, saved, effects, updates, clock, edits>>

\* the component's side of the state: the record in localStorage, the
\* splash flag, the result of the load, the effects and the state updates
\* that are pending, the time, the number of user events so far
app == <<store, showSplash, saved, effects, updates, clock, edits>>

(***************************************************************************)
(* Bounds of the model.                                                    *)
(***************************************************************************)
\* a simulated year is stepped only while every amount is within MaxMoney
MaxMoney == 10000000
\* ... and, under a non-zero inflation rate, while the COLA exponent is
\* at most MaxColaYears at 100% (the amounts double every year), and
\* longer in proportion at a lower rate
MaxColaYears == 11
\* the long planning horizon, in years past retirement
LongLife == 52
\* the user events of a session
MaxEdits == 2
\* the latest time of a session, the module's load being 0
MaxClock == 2

(***************************************************************************)
(* Arithmetic of the source on the integer representation.                 *)
(***************************************************************************)
Max(a, b) == IF a >= b THEN a ELSE b

Min(a, b) == IF a <= b THEN a ELSE b

\* x * (1 + pct / 100)
Grow(x, pct) == (x * (100 + pct)) \div 100

\* x / (1 + pct / 100), pct > -100
Shrink(x, pct) == (x * 100) \div (100 + pct)

\* x * Math.pow(1 + pct / 100, n), n of either sign: Grow applied n times,
\* Shrink -n times (the n factors are applied in two halves, which keeps
\* the evaluation shallow; 0 stays 0 under every factor)
RECURSIVE Pow(_, _, _)
Pow(x, pct, n) ==
    IF x = 0 \/ n = 0 THEN x
    ELSE IF n = 1 THEN Grow(x, pct)
    ELSE IF n = -1 THEN Shrink(x, pct)
    ELSE IF n > 0 THEN Pow(Pow(x, pct, n \div 2), pct, n - (n \div 2))
    ELSE Pow(Pow(x, pct, -((-n) \div 2)), pct, n + ((-n) \div 2))

(***************************************************************************)
(* INITIAL_DATA and the derived totals.                                    *)
(***************************************************************************)
INITIAL_DATA ==
    [ age |-> 65, retirementAge |-> 65, expectedLife |-> 90,
      ssaClaimingAge |-> 67, ssaMonthly |-> 3000,
      monthlyBudget |-> 5000, monthlyWithdrawal |-> 3000, taxRate |-> 12,
      roiScenarios |-> [low |-> 3, mid |-> 5, high |-> 7],
      assets |-> [fourOhOneK |-> 250000, ira |-> 50000, savings |-> 25000,
                  home |-> 0, car |-> 0, other |-> 0],
      liabilities |-> [mortgage |-> 0, loans |-> 0, other |-> 0],
      inflationRate |-> 3, hasSeenSplash |-> FALSE, lastUpdated |-> 0 ]

\* faulty variant: the illiquid home and car counted as investable
investableAssets_conflated(d) ==
    d.assets.fourOhOneK + d.assets.ira + d.assets.savings
        + d.assets.home + d.assets.car + d.assets.other

investableAssets(d) ==
    d.assets.fourOhOneK + d.assets.ira + d.assets.savings + d.assets.other

totalAssets(d) ==
    d.assets.fourOhOneK + d.assets.ira + d.assets.savings
        + d.assets.home + d.assets.car + d.assets.other

totalLiabilities(d) ==
    d.liabilities.mortgage + d.liabilities.loans + d.liabilities.other

netWorth(d) == totalAssets(d) - totalLiabilities(d)

(***************************************************************************)
(* SSA multiplier, in hundredths.                                          *)
(***************************************************************************)
\* faulty variant: no saturation at 70
getSsaMultiplier_unsaturated(age) ==
    IF age <= 62 THEN 70
    ELSE IF age < 67 THEN 70 + (age - 62) * 6
    ELSE 100 + (age - 67) * 8

getSsaMultiplier(age) ==
    IF age <= 62 THEN 70
    ELSE IF age >= 70 THEN 124
    ELSE IF age < 67 THEN 70 + (age - 62) * 6
    ELSE 100 + (age - 67) * 8

currentSsaCheck(d) ==
    (d.ssaMonthly * getSsaMultiplier(d.ssaClaimingAge)) \div 100

\* faulty variant: no SSA income in the projection
ssaIncome_absent(d, currentAge) == 0

\* the SSA income of the simulated year at currentAge (both projectors)
ssaIncome(d, currentAge) ==
    IF currentAge >= d.ssaClaimingAge
    THEN Pow(currentSsaCheck(d) * 12, d.inflationRate, currentAge - d.age)
    ELSE 0

(***************************************************************************)
(* calculateRunway(roi): the frame, the two loop bodies, the result.       *)
(* iters counts the executions of the withdrawal loop's body.              *)
(***************************************************************************)
RunwayCap == 50

\* faulty variant: the withdrawal taken from monthlyBudget
runwayEnter_budget(d, roi) ==
    [ roi |-> roi,
      currentAssets |-> investableAssets(d),
      annualWithdrawal |-> d.monthlyBudget * 12,
      i |-> 0, yearsPostRetirement |-> 0, iters |-> 0, broke |-> FALSE ]

\* faulty variant: the projection started from the total assets
runwayEnter_total(d, roi) ==
    [ roi |-> roi,
      currentAssets |-> totalAssets(d),
      annualWithdrawal |-> d.monthlyWithdrawal * 12,
      i |-> 0, yearsPostRetirement |-> 0, iters |-> 0, broke |-> FALSE ]

runwayEnter(d, roi) ==
    [ roi |-> roi,
      currentAssets |-> investableAssets(d),
      annualWithdrawal |-> d.monthlyWithdrawal * 12,
      i |-> 0, yearsPostRetirement |-> 0, iters |-> 0, broke |-> FALSE ]

runwayAccumCond(d, st) == st.i < d.retirementAge - d.age

runwayAccum(d, st) ==
    [st EXCEPT !.currentAssets = Grow(@, st.roi),
               !.annualWithdrawal = Grow(@, d.inflationRate),
               !.i = @ + 1]

\* faulty variant: the loop without its cap
runwayLoopCond_uncapped(st) == st.currentAssets > 0

runwayLoopCond(st) ==
    st.currentAssets > 0 /\ st.yearsPostRetirement < RunwayCap

runwayWithdraw(d, st) ==
    LET currentAge == d.retirementAge + st.yearsPostRetirement
        assets == Grow(st.currentAssets, st.roi) + ssaIncome(d, currentAge)
                      - st.annualWithdrawal
    IN  [st EXCEPT !.currentAssets = assets,
                   !.annualWithdrawal = Grow(@, d.inflationRate),
                   !.broke = (assets <= 0),
                   !.yearsPostRetirement = IF assets <= 0 THEN @ ELSE @ + 1,
                   !.iters = @ + 1]

runwayResult(d, st) == d.retirementAge + st.yearsPostRetirement

RECURSIVE runwayAccumAll(_, _)
runwayAccumAll(d, st) ==
    IF runwayAccumCond(d, st) THEN runwayAccumAll(d, runwayAccum(d, st)) ELSE st

\* one turn of the while loop: its body while the condition holds and no
\* break was taken, nothing afterwards
runwayYear(d, st) ==
    IF runwayLoopCond(st) /\ ~st.broke THEN runwayWithdraw(d, st) ELSE st

\* n turns, taken in two halves to keep the evaluation shallow
RECURSIVE runwayYears(_, _, _)
runwayYears(d, st, n) ==
    IF st.broke \/ n = 0 THEN st
    ELSE IF n = 1 THEN runwayYear(d, st)
    ELSE runwayYears(d, runwayYears(d, st, n \div 2), n - (n \div 2))

\* the while loop: the condition fails after at most RunwayCap turns
runwayLoop(d, st) == runwayYears(d, st, RunwayCap)

calculateRunway(d, roi) ==
    runwayResult(d, runwayLoop(d, runwayAccumAll(d, runwayEnter(d, roi))))

(***************************************************************************)
(* calculateEndingBalance(): the frame, the two loop bodies, the result.   *)
(* In the withdrawal phase i is the loop index of the source; short says   *)
(* that the body returned 0 from inside the loop.                          *)
(***************************************************************************)
endingEnter(d) ==
    [ currentAssets |-> investableAssets(d),
      annualWithdrawal |-> d.monthlyWithdrawal * 12,
      i |-> 0, short |-> FALSE ]

\* faulty variant: one accumulation year too many
endingAccumCond_inclusive(d, st) == st.i <= Max(0, d.retirementAge - d.age)

endingAccumCond(d, st) == st.i < Max(0, d.retirementAge - d.age)

\* faulty variant: the two rates exchanged
endingAccum_swapped(d, st) ==
    [st EXCEPT !.currentAssets = Grow(@, d.inflationRate),
               !.annualWithdrawal = Grow(@, d.roiScenarios.mid),
               !.i = @ + 1]

endingAccum(d, st) ==
    [st EXCEPT !.currentAssets = Grow(@, d.roiScenarios.mid),
               !.annualWithdrawal = Grow(@, d.inflationRate),
               !.i = @ + 1]

yearsToCalculate(d) == d.expectedLife - d.retirementAge

endingLoopCond(d, st) == st.i < yearsToCalculate(d)

\* faulty variant: a negative balance does not leave the loop
endingWithdraw_through(d, st) ==
    LET currentAge == d.retirementAge + st.i
        assets == Grow(st.currentAssets, d.roiScenarios.mid)
                      + ssaIncome(d, currentAge) - st.annualWithdrawal
    IN  [st EXCEPT !.currentAssets = assets,
                   !.annualWithdrawal = Grow(@, d.inflationRate),
                   !.i = @ + 1]

endingWithdraw(d, st) ==
    LET currentAge == d.retirementAge + st.i
        assets == Grow(st.currentAssets, d.roiScenarios.mid)
                      + ssaIncome(d, currentAge) - st.annualWithdrawal
    IN  [st EXCEPT !.currentAssets = assets,
                   !.annualWithdrawal = Grow(@, d.inflationRate),
                   !.short = (assets < 0),
                   !.i = @ + 1]

\* faulty variant: the final balance returned without Math.max
endingResult_unclamped(st) == IF st.short THEN 0 ELSE st.currentAssets

endingResult(st) == IF st.short THEN 0 ELSE Max(0, st.currentAssets)

RECURSIVE endingAccumAll(_, _)
endingAccumAll(d, st) ==
    IF endingAccumCond(d, st) THEN endingAccumAll(d, endingAccum(d, st)) ELSE st

\* one turn of the for loop: its body while the condition holds and the
\* function has not returned, nothing afterwards
endingYear(d, st) ==
    IF endingLoopCond(d, st) /\ ~st.short THEN endingWithdraw(d, st) ELSE st

\* n turns, taken in two halves to keep the evaluation shallow
RECURSIVE endingYears(_, _, _)
endingYears(d, st, n) ==
    IF st.short \/ n = 0 THEN st
    ELSE IF n = 1 THEN endingYear(d, st)
    ELSE endingYears(d, endingYears(d, st, n \div 2), n - (n \div 2))

\* the for loop: yearsToCalculate turns, none when that is not positive
endingLoop(d, st) == endingYears(d, st, Max(0, yearsToCalculate(d)))

calculateEndingBalance(d) ==
    endingResult(endingLoop(d, [endingAccumAll(d, endingEnter(d)) EXCEPT !.i = 0]))

(***************************************************************************)
(* SSA strategy: nowAge, waitAge, findBreakEven().                         *)
(***************************************************************************)
BreakEvenHorizon == 100

\* faulty variant: the current age taken unclamped
nowAge_unclamped(d) == d.age

nowAge(d) == Max(62, d.age)

waitAge(d) == d.ssaClaimingAge

breakEvenEnter(d) ==
    [ totalNow |-> 0, totalWait |-> 0, age |-> nowAge(d),
      checkNow |-> (d.ssaMonthly * getSsaMultiplier(nowAge(d)) * 12) \div 100,
      checkWait |-> (d.ssaMonthly * getSsaMultiplier(waitAge(d)) * 12) \div 100,
      found |-> FALSE ]

breakEvenLoopCond(st) == st.age <= BreakEvenHorizon

\* faulty variant: the wait total accumulated from nowAge on
breakEvenStep_ungated(d, st) ==
    LET now == st.totalNow + Pow(st.checkNow, d.inflationRate, st.age - d.age)
        wait == st.totalWait
                  + Pow(st.checkWait, d.inflationRate, st.age - d.age)
    IN  [st EXCEPT !.totalNow = now,
                   !.totalWait = wait,
                   !.found = (wait > now),
                   !.age = IF wait > now THEN @ ELSE @ + 1]

\* faulty variant: a tie of the two totals taken for the crossover
breakEvenStep_nonstrict(d, st) ==
    LET now == st.totalNow + Pow(st.checkNow, d.inflationRate, st.age - d.age)
        wait == IF st.age < waitAge(d)
                THEN st.totalWait
                ELSE st.totalWait
                       + Pow(st.checkWait, d.inflationRate, st.age - d.age)
    IN  [st EXCEPT !.totalNow = now,
                   !.totalWait = wait,
                   !.found = (wait >= now),
                   !.age = IF wait >= now THEN @ ELSE @ + 1]

breakEvenStep(d, st) ==
    LET now == st.totalNow + Pow(st.checkNow, d.inflationRate, st.age - d.age)
        wait == IF st.age < waitAge(d)
                THEN st.totalWait
                ELSE st.totalWait
                       + Pow(st.checkWait, d.inflationRate, st.age - d.age)
    IN  [st EXCEPT !.totalNow = now,
                   !.totalWait = wait,
                   !.found = (wait > now),
                   !.age = IF wait > now THEN @ ELSE @ + 1]

RECURSIVE breakEvenLoop(_, _)
breakEvenLoop(d, st) ==
    IF breakEvenLoopCond(st) /\ ~st.found
    THEN breakEvenLoop(d, breakEvenStep(d, st))
    ELSE st

breakEvenResult(st) == IF st.found THEN st.age ELSE BreakEvenHorizon

\* a result is <<v>>; null (no analysis) and "no result yet" are << >>
findBreakEven(d) ==
    IF waitAge(d) <= nowAge(d) THEN << >>
    ELSE <<breakEvenResult(breakEvenLoop(d, breakEvenEnter(d)))>>

\* catchupAge || 0: null and 0 both read as 0
catchupAge(d) ==
    IF findBreakEven(d) = << >> THEN 0 ELSE findBreakEven(d)[1]

isWorthIt(d) == d.expectedLife > catchupAge(d)

(***************************************************************************)
(* calculateCumulativeCash(claimingAge, endAge): the frame, the loop body, *)
(* the result; forgoneIncome is its one use in the component.              *)
(***************************************************************************)
cashEnter(d, claimingAge, endAge) ==
    [ claimingAge |-> claimingAge, endAge |-> endAge, total |-> 0,
      baseCheck |-> (d.ssaMonthly * getSsaMultiplier(claimingAge) * 12) \div 100,
      age |-> claimingAge ]

\* faulty variant: the year at endAge counted too
cashLoopCond_inclusive(st) == st.age <= st.endAge

cashLoopCond(st) == st.age < st.endAge

cashStep(d, st) ==
    [st EXCEPT !.total = @ + Pow(st.baseCheck, d.inflationRate, st.age - d.age),
               !.age = @ + 1]

cashResult(st) == st.total

\* one turn of the for loop
cashYear(d, st) == IF cashLoopCond(st) THEN cashStep(d, st) ELSE st

\* n turns, taken in two halves to keep the evaluation shallow
RECURSIVE cashYears(_, _, _)
cashYears(d, st, n) ==
    IF st.age < 0 \/ n = 0 THEN st
    ELSE IF n = 1 THEN cashYear(d, st)
    ELSE cashYears(d, cashYears(d, st, n \div 2), n - (n \div 2))

\* the for loop: endAge - claimingAge turns, none when that is not positive
cashLoop(d, st) == cashYears(d, st, Max(0, st.endAge - st.claimingAge))

calculateCumulativeCash(d, claimingAge, endAge) ==
    cashResult(cashLoop(d, cashEnter(d, claimingAge, endAge)))

forgoneIncome(d) == calculateCumulativeCash(d, nowAge(d), waitAge(d))

(***************************************************************************)
(* The snapshots the engine is run on.  Amounts are multiples that keep    *)
(* every product exact: ssaMonthly 200 gives annual checks divisible by    *)
(* 16, the deepest negative COLA exponent being 62 - 66.                   *)
(***************************************************************************)
AssetChoices ==
    LET A(k, s, h) == [fourOhOneK |-> k, ira |-> 0, savings |-> s,
                       home |-> h, car |-> 0, other |-> 0]
    IN  { A(0, 0, 0), A(0, 0, 9000), A(2400, 1200, 0), A(-600, 0, 0),
          A(1200, 0, 0) }

Snap(age, ra, el, claim, ssa, w, mid, infl, as) ==
    [INITIAL_DATA EXCEPT !.age = age, !.retirementAge = ra,
                         !.expectedLife = el, !.ssaClaimingAge = claim,
                         !.ssaMonthly = ssa, !.monthlyWithdrawal = w,
                         !.roiScenarios = [low |-> -100, mid |-> mid, high |-> 100],
                         !.inflationRate = infl, !.assets = as]

Ages == {60, 63, 66}

RetirementAges == {62, 65}

ProjectorClaimAges == {62, 64, 68}

Benefits == {0, 200}

Withdrawals == {0, 100, 300}

RoiRates == {-100, 0, 100}

InflationRates == {0, 100}

\* the scenario of the runway example: age 45, retirement at 65, life to
\* 90, a benefit of 3000 claimed at 67, 325000 investable, 3000 a month
\* withdrawn, inflation 3%, returns 3, 5 and 7%
RunwayScenario == [INITIAL_DATA EXCEPT !.age = 45]

\* expectedLife below and above every age the runway can return
RunwaySnapshots ==
    { RunwayScenario } \cup
    { Snap(a, r, e, c, s, w, 0, f, as) :
        a \in Ages, r \in RetirementAges, e \in {66, 120},
        c \in ProjectorClaimAges,
        s \in Benefits, w \in Withdrawals, f \in InflationRates,
        as \in AssetChoices }

\* short horizons under every rate, the long horizon under the flat rates
EndingSnapshots ==
    { Snap(a, r, r + n, c, s, w, m, f, as) :
        a \in Ages, r \in RetirementAges, n \in {-1, 0, 1, 3},
        c \in ProjectorClaimAges, s \in Benefits, w \in Withdrawals,
        m \in RoiRates, f \in InflationRates, as \in AssetChoices }
    \cup
    { Snap(a, r, r + LongLife, c, s, w, m, 0, as) :
        a \in Ages, r \in RetirementAges, c \in ProjectorClaimAges,
        s \in Benefits, w \in Withdrawals, m \in {-100, 0},
        as \in AssetChoices }

\* the snapshot of the cumulative-cash example: a benefit of 2000 claimed
\* at 62 or at 70, no inflation
CashScenario ==
    Snap(60, 65, 90, 70, 2000, 300, 0, 0,
         CHOOSE as \in AssetChoices : as.fourOhOneK = 2400)

StrategySnapshots ==
    { Snap(a, 65, e, c, s, 300, 0, f, CHOOSE as \in AssetChoices : as.fourOhOneK = 2400) :
        a \in Ages \cup {72}, e \in {68, 90, 105}, c \in 62..70,
        s \in Benefits, f \in InflationRates }
    \cup { CashScenario }

\* the claim ages the multiplier is applied to
CurveAges == 55..75

\* the arguments calculateCumulativeCash is applied to: those of the
\* component's call and fixed ages on either side of them; with a COLA the
\* claim ages whose negative exponents keep the factors exact
ColaExact(d, claimingAge) ==
    \/ d.inflationRate = 0
    \/ d.ssaMonthly = 0
    \/ claimingAge - d.age >= -4

CashClaimAges(d) == {a \in {nowAge(d), 62, 67, 70} : ColaExact(d, a)}

CashEndAges(d) == {waitAge(d), 61, 70, 73}

(***************************************************************************)
(* src/src/lib/storage.ts.  The item under STORAGE_KEY is << >> when there *)
(* is none and <<text>> otherwise.  A JSON text is the object's members,   *)
(* each value as its literal: a number as its sign and decimal digits, a   *)
(* boolean as true or false, the lastUpdated string in quotes, a           *)
(* sub-record as its own members.  A record is a function on its keys; a   *)
(* key that is not in the domain is undefined in the source.               *)
(***************************************************************************)
NumberFields ==
    {"age", "retirementAge", "expectedLife", "ssaClaimingAge", "ssaMonthly",
     "monthlyBudget", "monthlyWithdrawal", "taxRate", "inflationRate"}

ObjectFields == {"roiScenarios", "assets", "liabilities"}

BooleanFields == {"hasSeenSplash"}

StringFields == {"lastUpdated"}

DigitChars == <<"0", "1", "2", "3", "4", "5", "6", "7", "8", "9">>

\* the decimal digits of n >= 0
RECURSIVE Digits(_)
Digits(n) ==
    IF n < 10 THEN <<DigitChars[n + 1]>>
    ELSE Append(Digits(n \div 10), DigitChars[(n % 10) + 1])

\* faulty variant: the sign of a negative number dropped
NumberToString_unsigned(n) == IF n < 0 THEN Digits(-n) ELSE Digits(n)

\* the literal of a number
NumberToString(n) == IF n < 0 THEN <<"-">> \o Digits(-n) ELSE Digits(n)

DigitValue(c) == CHOOSE i \in 0..9 : DigitChars[i + 1] = c

RECURSIVE DigitsValue(_)
DigitsValue(t) ==
    IF t = << >> THEN 0
    ELSE DigitsValue(SubSeq(t, 1, Len(t) - 1)) * 10 + DigitValue(t[Len(t)])

\* the number of a literal
StringToNumber(t) ==
    IF Head(t) = "-" THEN -DigitsValue(Tail(t)) ELSE DigitsValue(t)

\* new Date().toISOString() and its JSON literal: the instant, in quotes
Quote(t) == <<"\"">> \o NumberToString(t) \o <<"\"">>

Unquote(t) == StringToNumber(SubSeq(t, 2, Len(t) - 1))

JSON_stringify(d) ==
    [k \in DOMAIN d |->
        IF k \in ObjectFields
        THEN [c \in DOMAIN d[k] |-> NumberToString(d[k][c])]
        ELSE IF k \in BooleanFields
        THEN (IF d[k] THEN <<"true">> ELSE <<"false">>)
        ELSE IF k \in StringFields THEN Quote(d[k])
        ELSE NumberToString(d[k])]

JSON_parse(t) ==
    [k \in DOMAIN t |->
        IF k \in ObjectFields
        THEN [c \in DOMAIN t[k] |-> StringToNumber(t[k][c])]
        ELSE IF k \in BooleanFields THEN t[k] = <<"true">>
        ELSE IF k \in StringFields THEN Unquote(t[k])
        ELSE StringToNumber(t[k])]

\* storage.save(data): the item after the call
storageSave(d) == <<JSON_stringify(d)>>

\* storage.load(): << >> is null
storageLoad(item) == IF item = << >> THEN << >> ELSE <<JSON_parse(item[1])>>

\* storage.clear(): the item after the call
storageClear == << >>

(***************************************************************************)
(* The component: the load effect's merge, the reset effect's claiming     *)
(* age, the state updates of setData.                                      *)
(***************************************************************************)
\* { ...INITIAL_DATA[k], ...(sv[k] || {}) }
mergeChildren(sv, k) ==
    LET child == IF k \in DOMAIN sv THEN sv[k] ELSE << >>
    IN  [c \in DOMAIN INITIAL_DATA[k] \cup DOMAIN child |->
            IF c \in DOMAIN child THEN child[c] ELSE INITIAL_DATA[k][c]]

\* the value the load effect passes to setData
merge(sv) ==
    [k \in DOMAIN INITIAL_DATA \cup DOMAIN sv |->
        IF k \in ObjectFields THEN mergeChildren(sv, k)
        ELSE IF k \in DOMAIN sv THEN sv[k] ELSE INITIAL_DATA[k]]

\* faulty variant: the age taken unclamped
validAge_unclamped(d) == d.age

\* Math.max(62, Math.min(70, Math.floor(data.age)))
validAge(d) == Max(62, Min(70, d.age))

\* parseFloat(value) || 0 of an input's text; the empty text gives NaN
numValue(value) == IF value = << >> THEN 0 ELSE StringToNumber(value)

\* faulty variant: a nested update builds the parent from the child alone
applyUpdate_flat(prev, u, now) ==
    CASE u.kind = "set" -> u.value
      [] u.kind = "claim" -> [prev EXCEPT !["ssaClaimingAge"] = u.value]
      [] u.kind = "splash" -> [prev EXCEPT !["hasSeenSplash"] = TRUE]
      [] u.kind = "field" ->
            IF Len(u.path) = 2
            THEN [prev EXCEPT ![u.path[1]] = [c \in {u.path[2]} |-> u.value],
                              !["lastUpdated"] = now]
            ELSE [prev EXCEPT ![u.path[1]] = u.value,
                              !["lastUpdated"] = now]

\* the object an updater was given, as the updater leaves it: every
\* updater builds its result by spreading prev (and the addressed child
\* object) into new objects and assigns to neither
prevAfter(prev, u, now) == prev

\* one queued state update applied to prev, at the time now
applyUpdate(prev, u, now) ==
    CASE u.kind = "set" -> u.value
      [] u.kind = "claim" -> [prev EXCEPT !["ssaClaimingAge"] = u.value]
      [] u.kind = "splash" -> [prev EXCEPT !["hasSeenSplash"] = TRUE]
      [] u.kind = "field" ->
            IF Len(u.path) = 2
            THEN [prev EXCEPT ![u.path[1]] = [@ EXCEPT ![u.path[2]] = u.value],
                              !["lastUpdated"] = now]
            ELSE [prev EXCEPT ![u.path[1]] = u.value,
                              !["lastUpdated"] = now]

RECURSIVE applyUpdates(_, _, _)
applyUpdates(prev, us, now) ==
    IF us = << >> THEN prev
    ELSE applyUpdates(applyUpdate(prev, Head(us), now), Tail(us), now)

(***************************************************************************)
(* The engine as a machine: a call enters a function on the snapshot, the  *)
(* loops advance one iteration per step, the return leaves the result.     *)
(***************************************************************************)
InRange(x) == -MaxMoney <= x /\ x <= MaxMoney

ColaInRange(d, currentAge) ==
    \/ d.inflationRate = 0
    \/ d.ssaMonthly = 0
    \/ d.inflationRate * (currentAge - d.age) <= 100 * MaxColaYears

\* no function of the engine entered; the component settled on data, which
\* its save effect has stored
Idle ==
    /\ fn = "idle" /\ pc = "idle" /\ loc = << >> /\ ret = << >>
    /\ store = storageSave(data)
    /\ showSplash = FALSE /\ saved = << >>
    /\ effects = << >> /\ updates = << >>
    /\ clock = 0 /\ edits = 0

InitRunway == data \in RunwaySnapshots /\ Idle

InitEnding == data \in EndingSnapshots /\ Idle

InitStrategy == data \in StrategySnapshots /\ Idle

CallMultiplier(a) ==
    /\ pc = "idle"
    /\ fn' = "getSsaMultiplier"
    /\ loc' = [age |-> a]
    /\ ret' = <<getSsaMultiplier(a)>>
    /\ pc' = "done"
    /\ UNCHANGED data
    /\ UNCHANGED app

CallRunway(roi) ==
    /\ pc = "idle"
    /\ fn' = "calculateRunway"
    /\ loc' = runwayEnter(data, roi)
    /\ pc' = "accum"
    /\ UNCHANGED <<data, ret>>
    /\ UNCHANGED app

RunwayAccum ==
    /\ fn = "calculateRunway" /\ pc = "accum"
    /\ runwayAccumCond(data, loc)
    /\ loc' = runwayAccum(data, loc)
    /\ UNCHANGED <<data, fn, pc, ret>>
    /\ UNCHANGED app

RunwayAccumExit ==
    /\ fn = "calculateRunway" /\ pc = "accum"
    /\ ~runwayAccumCond(data, loc)
    /\ pc' = "withdraw"
    /\ UNCHANGED <<data, fn, loc, ret>>
    /\ UNCHANGED app

RunwayWithdraw ==
    /\ fn = "calculateRunway" /\ pc = "withdraw"
    /\ runwayLoopCond(loc) /\ ~loc.broke
    /\ InRange(loc.currentAssets) /\ InRange(loc.annualWithdrawal)
    /\ ColaInRange(data, data.retirementAge + loc.yearsPostRetirement)
    /\ loc' = runwayWithdraw(data, loc)
    /\ UNCHANGED <<data, fn, pc, ret>>
    /\ UNCHANGED app

RunwayReturn ==
    /\ fn = "calculateRunway" /\ pc = "withdraw"
    /\ ~runwayLoopCond(loc) \/ loc.broke
    /\ ret' = <<runwayResult(data, loc)>>
    /\ pc' = "done"
    /\ UNCHANGED <<data, fn, loc>>
    /\ UNCHANGED app

CallEnding ==
    /\ pc = "idle"
    /\ fn' = "calculateEndingBalance"
    /\ loc' = endingEnter(data)
    /\ pc' = "accum"
    /\ UNCHANGED <<data, ret>>
    /\ UNCHANGED app

\* faulty variant: the inflated withdrawal written back into the snapshot
EndingAccum_inplace ==
    /\ fn = "calculateEndingBalance" /\ pc = "accum"
    /\ endingAccumCond(data, loc)
    /\ loc' = endingAccum(data, loc)
    /\ data' = [data EXCEPT !.monthlyWithdrawal = loc'.annualWithdrawal \div 12]
    /\ UNCHANGED <<fn, pc, ret>>
    /\ UNCHANGED app

EndingAccum ==
    /\ fn = "calculateEndingBalance" /\ pc = "accum"
    /\ endingAccumCond(data, loc)
    /\ loc' = endingAccum(data, loc)
    /\ UNCHANGED <<data, fn, pc, ret>>
    /\ UNCHANGED app

EndingAccumExit ==
    /\ fn = "calculateEndingBalance" /\ pc = "accum"
    /\ ~endingAccumCond(data, loc)
    /\ loc' = [loc EXCEPT !.i = 0]
    /\ pc' = "withdraw"
    /\ UNCHANGED <<data, fn, ret>>
    /\ UNCHANGED app

\* one withdrawal year; a negative balance returns from inside the loop
EndingWithdraw ==
    /\ fn = "calculateEndingBalance" /\ pc = "withdraw"
    /\ endingLoopCond(data, loc)
    /\ InRange(loc.currentAssets) /\ InRange(loc.annualWithdrawal)
    /\ ColaInRange(data, data.retirementAge + loc.i)
    /\ loc' = endingWithdraw(data, loc)
    /\ IF loc'.short
       THEN ret' = <<endingResult(loc')>> /\ pc' = "done"
       ELSE UNCHANGED <<ret, pc>>
    /\ UNCHANGED <<data, fn>>
    /\ UNCHANGED app

EndingReturn ==
    /\ fn = "calculateEndingBalance" /\ pc = "withdraw"
    /\ ~endingLoopCond(data, loc)
    /\ ret' = <<endingResult(loc)>>
    /\ pc' = "done"
    /\ UNCHANGED <<data, fn, loc>>
    /\ UNCHANGED app

CallBreakEvenNull ==
    /\ pc = "idle"
    /\ waitAge(data) <= nowAge(data)
    /\ fn' = "findBreakEven"
    /\ ret' = << >>
    /\ pc' = "done"
    /\ UNCHANGED <<data, loc>>
    /\ UNCHANGED app

CallBreakEven ==
    /\ pc = "idle"
    /\ ~(waitAge(data) <= nowAge(data))
    /\ fn' = "findBreakEven"
    /\ loc' = breakEvenEnter(data)
    /\ pc' = "loop"
    /\ UNCHANGED <<data, ret>>
    /\ UNCHANGED app

\* one age of the walk; the crossover returns from inside the loop
BreakEvenStep ==
    /\ fn = "findBreakEven" /\ pc = "loop"
    /\ breakEvenLoopCond(loc)
    /\ ColaInRange(data, loc.age)
    /\ loc' = breakEvenStep(data, loc)
    /\ IF loc'.found
       THEN ret' = <<breakEvenResult(loc')>> /\ pc' = "done"
       ELSE UNCHANGED <<ret, pc>>
    /\ UNCHANGED <<data, fn>>
    /\ UNCHANGED app

BreakEvenReturn ==
    /\ fn = "findBreakEven" /\ pc = "loop"
    /\ ~breakEvenLoopCond(loc)
    /\ ret' = <<breakEvenResult(loc)>>
    /\ pc' = "done"
    /\ UNCHANGED <<data, fn, loc>>
    /\ UNCHANGED app

CallCumulativeCash(claimingAge, endAge) ==
    /\ pc = "idle"
    /\ fn' = "calculateCumulativeCash"
    /\ loc' = cashEnter(data, claimingAge, endAge)
    /\ pc' = "loop"
    /\ UNCHANGED <<data, ret>>
    /\ UNCHANGED app

CashStep ==
    /\ fn = "calculateCumulativeCash" /\ pc = "loop"
    /\ cashLoopCond(loc)
    /\ ColaInRange(data, loc.age)
    /\ loc' = cashStep(data, loc)
    /\ UNCHANGED <<data, fn, pc, ret>>
    /\ UNCHANGED app

CashReturn ==
    /\ fn = "calculateCumulativeCash" /\ pc = "loop"
    /\ ~cashLoopCond(loc)
    /\ ret' = <<cashResult(loc)>>
    /\ pc' = "done"
    /\ UNCHANGED <<data, fn, loc>>
    /\ UNCHANGED app

NextRunway ==
    \/ \E roi \in {data.roiScenarios.low, data.roiScenarios.mid,
                    data.roiScenarios.high} : CallRunway(roi)
    \/ RunwayAccum
    \/ RunwayAccumExit
    \/ RunwayWithdraw
    \/ RunwayReturn

NextEnding ==
    \/ CallEnding
    \/ EndingAccum
    \/ EndingAccumExit
    \/ EndingWithdraw
    \/ EndingReturn

NextStrategy ==
    \/ \E a \in CurveAges : CallMultiplier(a)
    \/ CallBreakEvenNull
    \/ CallBreakEven
    \/ BreakEvenStep
    \/ BreakEvenReturn
    \/ \E c \in CashClaimAges(data), e \in CashEndAges(data) :
           CallCumulativeCash(c, e)
    \/ CashStep
    \/ CashReturn

SpecRunway == InitRunway /\ [][NextRunway]_vars

SpecEnding == InitEnding /\ [][NextEnding]_vars

SpecStrategy == InitStrategy /\ [][NextStrategy]_vars

(***************************************************************************)
(* The five functions of the engine on one snapshot.                       *)
(***************************************************************************)
\* the snapshots of the strategy lab and some whose balance lasts
EngineSnapshots ==
    {d \in StrategySnapshots : ColaExact(d, d.retirementAge)}
    \cup { Snap(a, 62, 65, 64, 200, w, 100, 0,
                CHOOSE as \in AssetChoices : as.fourOhOneK = 2400) :
             a \in {60, 63}, w \in {0, 100} }

InitEngine == data \in EngineSnapshots /\ Idle

NextEngine == NextRunway \/ NextEnding \/ NextStrategy

SpecEngine == InitEngine /\ [][NextEngine]_vars

(***************************************************************************)
(* The store under save, clear and load.  fn and loc keep the last call    *)
(* that wrote the item, ret is the result of load.                         *)
(***************************************************************************)
StorageSnapshots ==
    { [Snap(a, 65, 90, 62, s, 300, m, 0, as)
          EXCEPT !.hasSeenSplash = h, !.lastUpdated = -1] :
        a \in {60, 65, 72}, s \in {0, 2000}, m \in {-100, 5},
        as \in {x \in AssetChoices :
                  x.fourOhOneK + x.home \in {-600, 2400, 9000}},
        h \in BOOLEAN }

InitStorage ==
    /\ data = INITIAL_DATA
    /\ fn = "idle" /\ pc = "idle" /\ loc = << >> /\ ret = << >>
    /\ store = << >>
    /\ showSplash = FALSE /\ saved = << >>
    /\ effects = << >> /\ updates = << >>
    /\ clock = 0 /\ edits = 0

StorageSave(d) ==
    /\ store' = storageSave(d)
    /\ fn' = "storage.save"
    /\ loc' = [data |-> d]
    /\ pc' = "idle"
    /\ ret' = << >>
    /\ UNCHANGED <<data, showSplash, saved, effects, updates, clock, edits>>

StorageClear ==
    /\ store' = storageClear
    /\ fn' = "storage.clear"
    /\ loc' = << >>
    /\ pc' = "idle"
    /\ ret' = << >>
    /\ UNCHANGED <<data, showSplash, saved, effects, updates, clock, edits>>

StorageLoad ==
    /\ ret' = storageLoad(store)
    /\ pc' = "done"
    /\ UNCHANGED <<data, fn, loc, store, showSplash, saved, effects, updates,
                   clock, edits>>

NextStorage ==
    \/ \E d \in StorageSnapshots : StorageSave(d)
    \/ StorageClear
    \/ StorageLoad

SpecStorage == InitStorage /\ [][NextStorage]_vars

(***************************************************************************)
(* The component App from its mount on.  The effects of a render run in    *)
(* the order of their declaration and see the data of that render; the     *)
(* setData calls they make are queued and applied in order by the next     *)
(* render, after which the effects whose dependencies changed run again.   *)
(* The user acts on the settled component.                                 *)
(***************************************************************************)
\* r without the top-level keys top and the children kids of its sub-records
Without(r, top, kids) ==
    [k \in DOMAIN r \ top |->
        IF k \in ObjectFields
        THEN [c \in DOMAIN r[k] \ kids |-> r[k][c]]
        ELSE r[k]]

\* a record saved by this version of the component in an earlier session
SavedBy(age, claim, seen) ==
    [INITIAL_DATA EXCEPT !.age = age, !.ssaClaimingAge = claim,
                         !.hasSeenSplash = seen, !.lastUpdated = -1,
                         !.assets.home = 9000, !.monthlyWithdrawal = 100]

\* the records of the earlier versions: without the claiming age, the
\* liabilities and the illiquid assets; and without the scenarios, the
\* budget and the splash flag as well
StoredRecords ==
    { SavedBy(65, 67, TRUE), SavedBy(63, 68, TRUE), SavedBy(63, 63, FALSE),
      Without(SavedBy(45, 67, TRUE), {"ssaClaimingAge", "liabilities"},
              {"home", "car"}),
      Without(SavedBy(67, 67, FALSE),
              {"ssaClaimingAge", "liabilities", "roiScenarios", "expectedLife",
               "monthlyBudget", "monthlyWithdrawal", "taxRate",
               "inflationRate", "hasSeenSplash"},
              {"home", "car", "savings"}) }

\* the inputs: a field's path and the text of its input
FieldInputs ==
    ({<<"age">>, <<"assets", "home">>, <<"liabilities", "loans">>}
        \X {<< >>, <<"6", "3">>, <<"7", "5">>})
    \cup {<< <<"ssaClaimingAge">>, <<"6", "8">> >>}

InitApp ==
    /\ data = INITIAL_DATA
    /\ fn = "idle" /\ pc = "idle" /\ loc = << >> /\ ret = << >>
    /\ store \in {<< >>} \cup {storageSave(r) : r \in StoredRecords}
    /\ showSplash = FALSE /\ saved = << >>
    /\ effects = <<"load", "save", "reset">> /\ updates = << >>
    /\ clock = 0 /\ edits = 0

Settled == effects = << >> /\ updates = << >>

LoadEffect ==
    /\ effects # << >> /\ Head(effects) = "load"
    /\ saved' = storageLoad(store)
    /\ IF saved' # << >>
       THEN /\ updates' = Append(updates, [kind |-> "set",
                                           value |-> merge(saved'[1])])
            /\ showSplash' =
                  IF "hasSeenSplash" \in DOMAIN saved'[1]
                        /\ saved'[1]["hasSeenSplash"]
                  THEN showSplash ELSE TRUE
       ELSE updates' = updates /\ showSplash' = TRUE
    /\ effects' = Tail(effects)
    /\ UNCHANGED <<data, fn, pc, loc, ret, store, clock, edits>>

SaveEffect ==
    /\ effects # << >> /\ Head(effects) = "save"
    /\ store' = storageSave(data)
    /\ effects' = Tail(effects)
    /\ UNCHANGED <<data, fn, pc, loc, ret, showSplash, saved, updates, clock,
                   edits>>

ResetEffect ==
    /\ effects # << >> /\ Head(effects) = "reset"
    /\ updates' = Append(updates, [kind |-> "claim", value |-> validAge(data)])
    /\ effects' = Tail(effects)
    /\ UNCHANGED <<data, fn, pc, loc, ret, store, showSplash, saved, clock,
                   edits>>

\* faulty variant: data saved only when the age changed
Render_saveOnAge ==
    /\ effects = << >> /\ updates # << >>
    /\ \E now \in clock..Min(clock + 1, MaxClock) :
          /\ clock' = now
          /\ data' = applyUpdates(data, updates, now)
          /\ ret' = <<prevAfter(data, Head(updates), now)>>
    /\ updates' = << >>
    /\ effects' = IF data'["age"] # data["age"] THEN <<"save", "reset">>
                  ELSE << >>
    /\ UNCHANGED <<fn, pc, loc, store, showSplash, saved, edits>>

\* the render that applies the queued updates; the time may have advanced;
\* data is a new object, data.age is compared by value; ret keeps the
\* object of the previous render as the first updater left it
Render ==
    /\ effects = << >> /\ updates # << >>
    /\ \E now \in clock..Min(clock + 1, MaxClock) :
          /\ clock' = now
          /\ data' = applyUpdates(data, updates, now)
          /\ ret' = <<prevAfter(data, Head(updates), now)>>
    /\ updates' = << >>
    /\ effects' = IF data'["age"] # data["age"] THEN <<"save", "reset">>
                  ELSE <<"save">>
    /\ UNCHANGED <<fn, pc, loc, store, showSplash, saved, edits>>

\* the call is kept in fn and loc: the path and the text of the input
UpdateField(path, value) ==
    /\ Settled /\ edits < MaxEdits
    /\ fn' = "updateField"
    /\ loc' = [path |-> path, value |-> value]
    /\ updates' = <<[kind |-> "field", path |-> path,
                     value |-> numValue(value)]>>
    /\ edits' = edits + 1
    /\ UNCHANGED <<data, pc, ret, store, showSplash, saved, effects, clock>>

closeSplash ==
    /\ Settled /\ edits < MaxEdits
    /\ showSplash
    /\ fn' = "closeSplash"
    /\ loc' = << >>
    /\ showSplash' = FALSE
    /\ updates' = <<[kind |-> "splash"]>>
    /\ edits' = edits + 1
    /\ UNCHANGED <<data, pc, ret, store, saved, effects, clock>>

NextApp ==
    \/ LoadEffect
    \/ SaveEffect
    \/ ResetEffect
    \/ Render
    \/ \E in \in FieldInputs : UpdateField(in[1], in[2])
    \/ closeSplash

SpecApp == InitApp /\ [][NextApp]_vars

\* React runs every pending effect and renders every queued update; the
\* user need not act
Reactive == LoadEffect \/ SaveEffect \/ ResetEffect \/ Render

SpecAppFair == SpecApp /\ WF_vars(Reactive)

\* the page is closed and opened again, at any moment: the component state
\* is gone, the stored item stays, the component mounts anew
Reload ==
    /\ data' = INITIAL_DATA
    /\ fn' = "idle" /\ loc' = << >> /\ ret' = << >>
    /\ showSplash' = FALSE /\ saved' = << >>
    /\ effects' = <<"load", "save", "reset">> /\ updates' = << >>
    /\ UNCHANGED <<pc, store, clock, edits>>

NextSessions ==
    \/ NextApp
    \/ Reload

\* the sessions of one browser: no effect and no render stays pending
\* forever
SpecSessions == InitApp /\ [][NextSessions]_vars /\ WF_vars(Reactive)

(***************************************************************************)
(* Properties.                                                             *)
(***************************************************************************)
RunwayDone == fn = "calculateRunway" /\ pc = "done"

EndingDone == fn = "calculateEndingBalance" /\ pc = "done"

BreakEvenDone == fn = "findBreakEven" /\ pc = "done"

\* the investable total, read from the four fields of the snapshot
Liquid(d) ==
    d.assets.fourOhOneK + d.assets.ira + d.assets.savings + d.assets.other

\* C1: the multiplier is 0.70 up to 62, 1.24 from 70 on, 1.00 at 67,
\* 0.70 + (a-62)*0.06 between 62 and 67, 1.00 + (a-67)*0.08 from 67 to 70,
\* and never decreases as the claim age grows.
C1_MultiplierCurve ==
    (fn = "getSsaMultiplier" /\ pc = "done") =>
        LET a == loc.age
            m == ret[1]
        IN  /\ a <= 62 => m = 70
            /\ a >= 70 => m = 124
            /\ a = 67 => m = 100
            /\ (62 < a /\ a < 67) => m = 70 + (a - 62) * 6
            /\ (67 <= a /\ a < 70) => m = 100 + (a - 67) * 8
            /\ \A b \in CurveAges : a <= b => m <= getSsaMultiplier(b)

C1_Witness ==
    fn = "getSsaMultiplier" /\ pc = "done" /\ loc.age = 73 /\ ret = <<124>>

\* C2: the runway's withdrawal loop runs its body at most 50 times and
\* the age returned lies in retirementAge .. retirementAge + 50, whatever
\* expectedLife is.
C2_RunwayCapped ==
    fn = "calculateRunway" =>
        /\ loc.iters <= 50
        /\ loc.yearsPostRetirement <= 50
        /\ pc = "done" =>
              /\ data.retirementAge <= ret[1]
              /\ ret[1] <= data.retirementAge + 50

C2_Witness ==
    /\ RunwayDone
    /\ loc.iters = 50
    /\ ret = <<data.retirementAge + 50>>
    /\ data.expectedLife < data.retirementAge + 50

\* C3: the ending-balance projector simulates at most 50 withdrawal years
\* past retirementAge, also when expectedLife - retirementAge > 50.
C3_EndingCapped ==
    (fn = "calculateEndingBalance" /\ pc \in {"withdraw", "done"}) =>
        loc.i <= 50

\* C4: with investable assets 0, a positive withdrawal and no SSA benefit
\* the runway is exactly retirementAge, under every return rate.
C4_ImmediateDepletion ==
    ( /\ RunwayDone
      /\ Liquid(data) = 0
      /\ data.monthlyWithdrawal > 0
      /\ data.ssaMonthly = 0 ) => ret = <<data.retirementAge>>

C4_Witness ==
    /\ RunwayDone
    /\ Liquid(data) = 0
    /\ data.assets.home > 0
    /\ data.monthlyWithdrawal > 0
    /\ data.ssaMonthly = 0
    /\ loc.roi = 100
    /\ ret = <<data.retirementAge>>

\* C5 as stated: with monthlyWithdrawal = 0 and a return rate >= 0 the
\* runway is never below retirementAge + 50, whatever the investable
\* assets and ssaMonthly are.
C5_NoWithdrawalNeverDepletes ==
    (RunwayDone /\ data.monthlyWithdrawal = 0 /\ loc.roi >= 0) =>
        ret[1] >= data.retirementAge + 50

\* C5 as amended: with monthlyWithdrawal = 0, a return rate >= 0 and
\* investable assets > 0 (ssaMonthly >= 0, inflationRate >= 0) the balance
\* stays positive in every simulated year and the runway is never below
\* retirementAge + 50.
C5_NoWithdrawalPositiveAssets ==
    ( /\ fn = "calculateRunway"
      /\ data.monthlyWithdrawal = 0
      /\ loc.roi >= 0
      /\ Liquid(data) > 0
      /\ data.ssaMonthly >= 0 /\ data.inflationRate >= 0 ) =>
        /\ loc.currentAssets > 0
        /\ ~loc.broke
        /\ pc = "done" => ret[1] >= data.retirementAge + 50

C5_Witness ==
    /\ RunwayDone
    /\ data.monthlyWithdrawal = 0
    /\ loc.roi >= 0
    /\ Liquid(data) > 0
    /\ data.ssaMonthly > 0
    /\ ret = <<data.retirementAge + 50>>

\* C6: the ending balance returned is never negative.
C6_EndingNonNegative == EndingDone => ret[1] >= 0

C6_Witness ==
    /\ EndingDone
    /\ ~loc.short
    /\ loc.currentAssets < 0
    /\ ret = <<0>>

\* the balance n years on, were no year to leave the loop early
RECURSIVE YearsThrough(_, _, _)
YearsThrough(d, st, n) ==
    IF st.i < 0 \/ n = 0 THEN st
    ELSE IF n = 1 THEN endingWithdraw_through(d, st)
    ELSE YearsThrough(d, YearsThrough(d, st, n \div 2), n - (n \div 2))

BalanceThrough(d, st) ==
    YearsThrough(d, st, Max(0, yearsToCalculate(d) - st.i)).currentAssets

PostAccumulation(d) ==
    Pow(Liquid(d), d.roiScenarios.mid, Max(0, d.retirementAge - d.age))

\* C8 as stated: with expectedLife <= retirementAge no withdrawal year is
\* simulated and the post-accumulation balance is returned unchanged,
\* whatever its sign.
C8_ZeroYearsUnchanged ==
    (EndingDone /\ data.expectedLife <= data.retirementAge) =>
        loc.i = 0 /\ ret = <<PostAccumulation(data)>>

\* C8 as amended: with expectedLife <= retirementAge no withdrawal year is
\* simulated and the post-accumulation balance is returned, a negative one
\* as 0.
C8_ZeroYearsClamped ==
    (EndingDone /\ data.expectedLife <= data.retirementAge) =>
        loc.i = 0 /\ ret = <<Max(0, PostAccumulation(data))>>

C8_Witness ==
    /\ EndingDone
    /\ data.expectedLife < data.retirementAge
    /\ data.age < data.retirementAge
    /\ data.roiScenarios.mid = 100
    /\ Liquid(data) < 0
    /\ ret = <<0>>

\* the inflated annual withdrawal of withdrawal year i
WithdrawalOfYear(d, i) ==
    Pow(d.monthlyWithdrawal * 12, d.inflationRate,
        Max(0, d.retirementAge - d.age) + i)

\* withdrawal <= income in every simulated year
IncomeCovers(d) ==
    \A i \in 0..(yearsToCalculate(d) - 1) :
        WithdrawalOfYear(d, i) <= ssaIncome(d, d.retirementAge + i)

\* the mid rates a snapshot is compared under: every rate on the short
\* horizons, the flat ones on the long horizon
ComparedRates(d) ==
    IF yearsToCalculate(d) <= MaxColaYears THEN RoiRates
    ELSE {m \in RoiRates : m <= 0}

WithMid(d, m) == [d EXCEPT !.roiScenarios.mid = m]

\* C9 as stated: when withdrawal <= income in every simulated year, the
\* ending balance does not decrease when mid grows, all else equal.
C9_MonotoneInMid ==
    (EndingDone /\ IncomeCovers(data)) =>
        \A m \in ComparedRates(data) :
            data.roiScenarios.mid <= m =>
                ret[1] <= calculateEndingBalance(WithMid(data, m))

\* C9 as amended: when withdrawal <= income in every simulated year and
\* the investable assets are not negative (rates >= -100%), the ending
\* balance does not decrease when mid grows, all else equal.
C9_MonotoneInMidNonNegative ==
    (EndingDone /\ IncomeCovers(data) /\ Liquid(data) >= 0) =>
        \A m \in ComparedRates(data) :
            data.roiScenarios.mid <= m =>
                ret[1] <= calculateEndingBalance(WithMid(data, m))

C9_Witness ==
    /\ EndingDone
    /\ IncomeCovers(data)
    /\ Liquid(data) > 0
    /\ data.monthlyWithdrawal > 0
    /\ yearsToCalculate(data) >= 3
    /\ data.roiScenarios.mid = 0
    /\ ret[1] < calculateEndingBalance(WithMid(data, 100))

\* C10: findBreakEven returns null when waitAge <= nowAge, and otherwise
\* an age b with waitAge <= b <= 100, where nowAge = max(62, age) and
\* waitAge = ssaClaimingAge.
C10_BreakEvenRange ==
    BreakEvenDone =>
        IF data.ssaClaimingAge <= Max(62, data.age)
        THEN ret = << >>
        ELSE /\ Len(ret) = 1
             /\ data.ssaClaimingAge <= ret[1]
             /\ ret[1] <= 100

C10_Witness ==
    /\ BreakEvenDone
    /\ data.age < 62
    /\ data.ssaClaimingAge = 70
    /\ Len(ret) = 1
    /\ ret[1] > 70 /\ ret[1] < 100

CashDone == fn = "calculateCumulativeCash" /\ pc = "done"

\* the annual benefit of a claim at claimAge, in today's dollars
AnnualBenefit(d, claimAge) ==
    (d.ssaMonthly * getSsaMultiplier(claimAge) * 12) \div 100

\* the benefits of the ages lo..hi, each inflated by
\* (1 + inflation)^(age - current age)
RECURSIVE BenefitSum(_, _, _, _)
BenefitSum(d, check, lo, hi) ==
    IF lo > hi THEN 0
    ELSE IF lo = hi THEN Pow(check, d.inflationRate, lo - d.age)
    ELSE LET m == (lo + hi) \div 2
         IN  BenefitSum(d, check, lo, m) + BenefitSum(d, check, m + 1, hi)

\* the cumulative claim-now total through age b
NowTotal(d, b) ==
    BenefitSum(d, AnnualBenefit(d, Max(62, d.age)), Max(62, d.age), b)

\* the cumulative wait-policy total through age b
WaitTotal(d, b) ==
    BenefitSum(d, AnnualBenefit(d, d.ssaClaimingAge), d.ssaClaimingAge, b)

\* C11: when waitAge > nowAge, findBreakEven returns the first age b in
\* nowAge..100 at which the cumulative wait total (ages waitAge..b) strictly
\* exceeds the cumulative claim-now total (ages nowAge..b); at every
\* earlier age the wait total does not exceed the now total; and it
\* returns 100 when no age in nowAge..100 is a crossover.
C11_FirstCrossover ==
    (BreakEvenDone /\ data.ssaClaimingAge > Max(62, data.age)) =>
        /\ Len(ret) = 1
        /\ Max(62, data.age) <= ret[1] /\ ret[1] <= 100
        /\ \A a \in Max(62, data.age)..(ret[1] - 1) :
               WaitTotal(data, a) <= NowTotal(data, a)
        /\ \/ WaitTotal(data, ret[1]) > NowTotal(data, ret[1])
           \/ ret[1] = 100

C11_Witness ==
    /\ BreakEvenDone
    /\ data.ssaMonthly > 0
    /\ data.inflationRate = 100
    /\ data.age < 62
    /\ data.ssaClaimingAge = 70
    /\ ret = <<71>>
    /\ WaitTotal(data, 70) < NowTotal(data, 70)
    /\ WaitTotal(data, 71) > NowTotal(data, 71)

\* C12: calculateCumulativeCash(claimAge, untilAge) is the sum of one annual
\* benefit for each age from claimAge up to but excluding untilAge, 0 when
\* untilAge <= claimAge; with inflationRate = 0 it is
\* ssaMonthly * multiplier(claimAge) * 12 * (untilAge - claimAge), which is
\* 134400 for ssaMonthly = 2000 claimed at 62 until 70.
C12_CumulativeCash ==
    CashDone =>
        LET c == loc.claimingAge
            e == loc.endAge
        IN  /\ ret = <<BenefitSum(data, AnnualBenefit(data, c), c, e - 1)>>
            /\ e <= c => ret = <<0>>
            /\ (data.inflationRate = 0 /\ e > c) =>
                  ret = <<(data.ssaMonthly * getSsaMultiplier(c) * 12 * (e - c))
                            \div 100>>
            /\ ( /\ data.inflationRate = 0 /\ data.ssaMonthly = 2000
                 /\ c = 62 /\ e = 70 ) => ret = <<134400>>

C12_Witness ==
    /\ CashDone
    /\ data = CashScenario
    /\ loc.claimingAge = 62 /\ loc.endAge = 70
    /\ ret = <<134400>>

\* C13: after any sequence of save and clear, load returns a snapshot equal
\* in every field to the argument of the most recent save when no clear
\* followed it, and null when nothing was ever saved or the last call that
\* wrote the store was clear.
C13_RoundTrip ==
    (pc = "done" /\ fn \in {"idle", "storage.save", "storage.clear"}) =>
        IF fn = "storage.save"
        THEN /\ ret = <<loc.data>>
             /\ DOMAIN ret[1] = DOMAIN loc.data
             /\ \A k \in ObjectFields : DOMAIN ret[1][k] = DOMAIN loc.data[k]
        ELSE ret = << >>

C13_Witness ==
    /\ pc = "done" /\ fn = "storage.save"
    /\ loc.data.assets.fourOhOneK < 0
    /\ loc.data.roiScenarios.mid = -100
    /\ loc.data.hasSeenSplash
    /\ ret = <<loc.data>>

\* the load effect's snapshot has been rendered and the user has not acted
Loaded ==
    /\ saved # << >>
    /\ edits = 0
    /\ \A j \in 1..Len(updates) : updates[j].kind # "set"

\* the children of sub-record k in the saved record, none when it is missing
SavedChildren(k) ==
    IF k \in DOMAIN saved[1] THEN DOMAIN saved[1][k] ELSE {}

\* no field of the snapshot is undefined
AllDefined(d) ==
    /\ DOMAIN INITIAL_DATA \subseteq DOMAIN d
    /\ \A k \in ObjectFields : DOMAIN INITIAL_DATA[k] \subseteq DOMAIN d[k]

\* after the load, every field the saved record lacks, other than
\* ssaClaimingAge, has its default, and no field is undefined
DefaultsButClaimingAge ==
    Loaded =>
        /\ AllDefined(data)
        /\ \A k \in DOMAIN INITIAL_DATA \ (ObjectFields \cup {"ssaClaimingAge"}) :
               k \notin DOMAIN saved[1] => data[k] = INITIAL_DATA[k]
        /\ \A k \in ObjectFields :
               \A c \in DOMAIN INITIAL_DATA[k] \ SavedChildren(k) :
                   data[k][c] = INITIAL_DATA[k][c]

\* C14: on startup with a saved record that lacks fields, the snapshot has
\* the default for every missing top-level field and every missing child
\* of assets, liabilities and roiScenarios (also when the whole sub-record
\* is missing), and no field of it is undefined.
C14_MissingTakeDefaults ==
    Loaded =>
        /\ AllDefined(data)
        /\ \A k \in DOMAIN INITIAL_DATA \ ObjectFields :
               k \notin DOMAIN saved[1] => data[k] = INITIAL_DATA[k]
        /\ \A k \in ObjectFields :
               \A c \in DOMAIN INITIAL_DATA[k] \ SavedChildren(k) :
                   data[k][c] = INITIAL_DATA[k][c]

\* the pending updates are those of updateField, closeSplash and the reset
\* effect, none the load effect's
UserUpdates == \A j \in 1..Len(updates) : updates[j].kind # "set"

\* C18: every operation that changes a field of the snapshot (updateField,
\* closeSplash, the claiming-age reset after an age change) also stamps
\* lastUpdated with the time of the change.
C18_StampedOnEveryMutation ==
    [][(UserUpdates /\ data' # data) => data'["lastUpdated"] = clock']_vars

\* C19: once no effect and no update is pending, the record in the store
\* is the current snapshot, field for field.
C19_PersistedWhenSettled ==
    Settled =>
        /\ store # << >>
        /\ storageLoad(store) = <<data>>
        /\ DOMAIN storageLoad(store)[1] = DOMAIN data

C19_Witness ==
    /\ Settled
    /\ edits = 2
    /\ saved # << >>
    /\ data["age"] = 75 /\ data["ssaClaimingAge"] = 70
    /\ data["assets"]["home"] = 63
    /\ storageLoad(store) = <<data>>

\* the mount effects and the renders they caused are over, the user has
\* not acted
StartupComplete == Settled /\ edits = 0

\* C20: after startup with a saved snapshot present, every field present in
\* the saved snapshot, ssaClaimingAge included, has its saved value in the
\* snapshot in memory.
C20_SavedValuesKept ==
    (StartupComplete /\ saved # << >>) =>
        \A k \in DOMAIN saved[1] :
            IF k \in ObjectFields
            THEN \A c \in DOMAIN saved[1][k] : data[k][c] = saved[1][k][c]
            ELSE data[k] = saved[1][k]

\* the result a function left is the one its direct evaluation on the same
\* snapshot and arguments gives
DoneAgree ==
    /\ (fn = "getSsaMultiplier" /\ pc = "done") =>
          ret = <<getSsaMultiplier(loc.age)>>
    /\ RunwayDone => ret = <<calculateRunway(data, loc.roi)>>
    /\ EndingDone => ret = <<calculateEndingBalance(data)>>
    /\ CashDone =>
          ret = <<calculateCumulativeCash(data, loc.claimingAge, loc.endAge)>>
    /\ BreakEvenDone => ret = findBreakEven(data)

\* C15: the engine functions (multiplier, runway, ending balance,
\* cumulative cash, break-even) are pure: no step of theirs changes a field
\* of the snapshot or the record in the store, and evaluating one again on
\* an equal snapshot returns an equal result.
C15_EnginePure ==
    /\ []DoneAgree
    /\ [][data' = data /\ store' = store]_vars

C15_Witness ==
    /\ RunwayDone
    /\ data.age < data.retirementAge
    /\ data.ssaMonthly > 0
    /\ loc.iters >= 2
    /\ store = storageSave(data)
    /\ ret = <<calculateRunway(data, loc.roi)>>
    /\ ret[1] > data.retirementAge

\* the scenario's run at the mid rate
ScenarioRun ==
    fn = "calculateRunway" /\ data = RunwayScenario /\ loc.roi = 5

\* C16 as stated: in the scenario the age returned at the mid rate is the
\* age at which the simulated assets first go non-positive.
C16_ScenarioDepletes ==
    (ScenarioRun /\ pc = "done") =>
        /\ loc.broke /\ loc.currentAssets <= 0
        /\ ret = <<data.retirementAge + loc.yearsPostRetirement>>

\* C16 as amended: in the scenario (20 years of 5% accumulation, SSA from
\* 67 at multiplier 1.00, equal to the inflated withdrawal from then on),
\* the simulated assets stay positive in each of the 50 years the loop is
\* capped at, and the age returned at the mid rate is retirementAge + 50,
\* that is 115.
C16_ScenarioReachesCap ==
    ScenarioRun =>
        /\ getSsaMultiplier(data.ssaClaimingAge) = 100
        /\ ssaIncome(data, 66) = 0 /\ ssaIncome(data, 67) > 0
        /\ pc = "withdraw" =>
              /\ loc.i = 20
              /\ loc.currentAssets > 800000
              /\ ~loc.broke
        /\ pc = "done" =>
              /\ loc.iters = 50
              /\ loc.currentAssets > 800000
              /\ ret = <<115>>

C16_Witness ==
    /\ ScenarioRun /\ pc = "done"
    /\ loc.iters = 50
    /\ ret = <<115>>

\* the snapshot with other illiquid assets, liabilities, tax rate and budget:
\* each changed alone, and all changed together
Variants(d) ==
    { [d EXCEPT !.assets.home = 9000],
      [d EXCEPT !.assets.car = 700],
      [d EXCEPT !.liabilities.mortgage = 5000],
      [d EXCEPT !.liabilities.loans = 300],
      [d EXCEPT !.liabilities.other = 40],
      [d EXCEPT !.taxRate = 40],
      [d EXCEPT !.monthlyBudget = 0],
      [d EXCEPT !.assets.home = 9000, !.assets.car = 700,
                !.liabilities.mortgage = 5000, !.liabilities.loans = 300,
                !.liabilities.other = 40, !.taxRate = 40,
                !.monthlyBudget = 0] }

\* C17: investableAssets is the sum of exactly the 401k, IRA, savings and
\* other fields, the total assets add home and car, the net worth is the
\* total assets less the total liabilities; and changing home, car, a
\* liability, taxRate or monthlyBudget changes neither the runway (at any
\* of the three rates) nor the ending balance.
C17_IlliquidIgnored ==
    /\ \A v \in Variants(data) \cup {data} :
          /\ investableAssets(v) = Liquid(v)
          /\ totalAssets(v) = Liquid(v) + v.assets.home + v.assets.car
          /\ netWorth(v) = totalAssets(v) - v.liabilities.mortgage
                              - v.liabilities.loans - v.liabilities.other
    /\ RunwayDone =>
          \A v \in Variants(data) : calculateRunway(v, loc.roi) = ret[1]
    /\ EndingDone =>
          \A v \in Variants(data) : calculateEndingBalance(v) = ret[1]

C17_Witness ==
    /\ RunwayDone
    /\ loc.broke /\ loc.iters >= 2
    /\ LET v == [data EXCEPT !.assets.home = 9000, !.liabilities.loans = 300]
       IN  /\ totalAssets(v) > investableAssets(v)
           /\ netWorth(v) < totalAssets(v)
           /\ calculateRunway(v, loc.roi) = ret[1]

\* the load effect has found a record and its snapshot is not yet applied
LoadPending ==
    /\ saved # << >>
    /\ edits = 0
    /\ \E j \in 1..Len(updates) : updates[j].kind = "set"

\* C21: during startup with a saved snapshot present, in every state from
\* the mount to the render that applies the loaded data, the record in the
\* store is still the one saved before: it is never overwritten with the
\* default snapshot.
C21_StoreKeptDuringStartup ==
    LoadPending =>
        /\ store # << >>
        /\ storageLoad(store) = saved
        /\ storageLoad(store) # <<INITIAL_DATA>>

\* the age changed in the last render (or the component has just mounted):
\* the reset effect is pending
ResetPending == \E j \in 1..Len(effects) : effects[j] = "reset"

\* min(70, max(62, floor(age))) of an integer age
ClampedAge(age) == IF age < 62 THEN 62 ELSE IF age > 70 THEN 70 ELSE age

\* C22: whenever the age changes, once the effects settle ssaClaimingAge
\* is min(70, max(62, floor(age))), whatever claiming age was selected
\* before; and every value the reset sets lies in 62..70.
C22_ClaimingAgeReset ==
    /\ [](\A j \in 1..Len(updates) :
            updates[j].kind = "claim" => updates[j].value \in 62..70)
    /\ ResetPending ~>
          (Settled /\ data["ssaClaimingAge"] = ClampedAge(data["age"]))

C22_Witness ==
    /\ Settled
    /\ edits >= 1
    /\ saved # << >>
    /\ "ssaClaimingAge" \in DOMAIN saved[1]
    /\ saved[1]["ssaClaimingAge"] = 68
    /\ data["age"] = 0
    /\ data["ssaClaimingAge"] = 62

\* x compounded at pct over n elapsed years, over none when n <= 0
RECURSIVE Compound(_, _, _)
Compound(x, pct, n) ==
    IF x = 0 \/ n <= 0 THEN x ELSE Compound(Grow(x, pct), pct, n - 1)

\* a step that simulates a withdrawal year of one of the projectors
WithdrawalYear ==
    /\ fn \in {"calculateRunway", "calculateEndingBalance"}
    /\ pc = "withdraw"
    /\ loc' # loc

\* the age simulated by the year
SimulatedAge ==
    data.retirementAge
        + (IF fn = "calculateRunway" THEN loc.yearsPostRetirement ELSE loc.i)

\* the income the year added: the new balance less the grown old balance,
\* the withdrawal put back
IncomeAdded ==
    loc'.currentAssets + loc.annualWithdrawal
        - Grow(loc.currentAssets,
               IF fn = "calculateRunway" THEN loc.roi
               ELSE data.roiScenarios.mid)

\* C23: in both projectors, the Social Security income of a simulated
\* withdrawal year is 0 when the simulated age is below ssaClaimingAge, and
\* otherwise ssaMonthly * multiplier(ssaClaimingAge) * 12 compounded by the
\* inflation over the years elapsed from the current age to the simulated
\* age, never over a negative number of years.
C23_SsaIncomeOfYear ==
    [][WithdrawalYear =>
          IF SimulatedAge < data.ssaClaimingAge
          THEN IncomeAdded = 0
          ELSE IncomeAdded =
                 Compound(AnnualBenefit(data, data.ssaClaimingAge),
                          data.inflationRate, SimulatedAge - data.age)]_vars

\* the part of C23 that holds: the income is 0 below the claiming age and
\* otherwise the benefit compounded over the years from the current age to
\* the simulated age, whenever that number of years is not negative
SsaIncomeFromToday ==
    [][(WithdrawalYear /\ SimulatedAge >= data.age) =>
          IF SimulatedAge < data.ssaClaimingAge
          THEN IncomeAdded = 0
          ELSE IncomeAdded =
                 Compound(AnnualBenefit(data, data.ssaClaimingAge),
                          data.inflationRate, SimulatedAge - data.age)]_vars

\* the walk of findBreakEven has been entered and has taken no age yet
BreakEvenEntered ==
    fn = "findBreakEven" /\ pc = "loop" /\ loc.totalNow = 0 /\ ~loc.found
        /\ loc.totalWait = 0 /\ loc.age <= Max(62, data.age)

\* C24 as stated: the claim-now age the analysis starts from is at least
\* 62 and at most the current age, for every current age, those below 62
\* included.
C24_NowAgeWithinAge ==
    (fn = "findBreakEven" /\ pc = "loop") =>
        /\ nowAge(data) >= 62
        /\ nowAge(data) <= data.age

\* C24 as amended: the claim-now age is max(62, current age): at least 62
\* and at least the current age, the current age itself from 62 on and 62,
\* above the current age, below; the walk and the claim-now benefit start
\* from it.
C24_NowAgeAtLeast62 ==
    (fn = "findBreakEven" /\ pc = "loop") =>
        /\ nowAge(data) >= 62 /\ nowAge(data) >= data.age
        /\ nowAge(data) = (IF data.age >= 62 THEN data.age ELSE 62)
        /\ loc.age >= nowAge(data)
        /\ BreakEvenEntered => loc.age = nowAge(data)
        /\ loc.checkNow =
              (data.ssaMonthly * 12
                 * getSsaMultiplier(IF data.age >= 62 THEN data.age ELSE 62))
                 \div 100

C24_Witness ==
    /\ BreakEvenEntered
    /\ data.age = 60
    /\ loc.age = 62
    /\ data.ssaMonthly > 0
    /\ loc.checkNow = (data.ssaMonthly * 12 * 70) \div 100

\* the years calculateRunway simulates at the mid rate before it stops,
\* looked at over the horizon of calculateEndingBalance only
RunwayYearsWithinHorizon(d) ==
    runwayYears(d, runwayAccumAll(d, runwayEnter(d, d.roiScenarios.mid)),
                yearsToCalculate(d)).yearsPostRetirement

\* C25: for every snapshot with 1 <= expectedLife - retirementAge <= 50,
\* a positive ending balance implies that the runway at the mid rate is at
\* least expectedLife: the runway loop is still running after every year
\* of the horizon.
C25_ProjectorsAgree ==
    (/\ EndingDone
     /\ 1 <= yearsToCalculate(data)
     /\ yearsToCalculate(data) <= 50
     /\ ret[1] > 0)
        => /\ RunwayYearsWithinHorizon(data) = yearsToCalculate(data)
           /\ data.retirementAge + RunwayYearsWithinHorizon(data)
                  >= data.expectedLife

\* the ages below expectedLife at which a crossover has to be looked for:
\* the returned age when it is below the horizon of the walk, the ages
\* from the horizon on otherwise
CrossoverCandidates ==
    IF ret[1] < BreakEvenHorizon THEN {ret[1]}
    ELSE BreakEvenHorizon..(data.expectedLife - 1)

\* C26: whenever isWorthIt is true and waitAge > nowAge, some age below
\* expectedLife has a cumulative wait-policy total strictly above the
\* cumulative claim-now total; it is never true when the walk to age 100
\* finds no crossover.
C26_WorthItMeansCrossover ==
    (/\ BreakEvenDone
     /\ waitAge(data) > nowAge(data)
     /\ isWorthIt(data))
        => /\ ret = findBreakEven(data)
           /\ \E b \in CrossoverCandidates :
                 /\ b < data.expectedLife
                 /\ WaitTotal(data, b) > NowTotal(data, b)

\* the render that applies the update queued by a call of updateField
FieldRender ==
    /\ fn = "updateField"
    /\ effects = << >> /\ updates' = << >>
    /\ Len(updates) = 1 /\ updates[1].kind = "field"

\* the number a text denotes: the integer whose decimal numeral it is, 0
\* for a text that is no numeral
Numerals == (0 - 99)..99

Denoted(text) ==
    IF \E n \in Numerals : NumberToString(n) = text
    THEN CHOOSE n \in Numerals : NumberToString(n) = text
    ELSE 0

\* C27: the render after updateField(path, value) has the addressed field,
\* or the addressed child of its parent, at the number the text denotes (0
\* for a text that is no number); lastUpdated apart, every other top-level
\* field and every sibling child keeps its value, no field appears or
\* disappears, and the previous snapshot is as it was.
C27_UpdateFieldFrame ==
    [][FieldRender =>
        LET path == loc.path
            top == path[1]
        IN  /\ DOMAIN data' = DOMAIN data
            /\ \A k \in DOMAIN data \ {top, "lastUpdated"} :
                  data'[k] = data[k]
            /\ IF Len(path) = 2
               THEN /\ data'[top][path[2]] = Denoted(loc.value)
                    /\ DOMAIN data'[top] = DOMAIN data[top]
                    /\ \A c \in DOMAIN data[top] \ {path[2]} :
                          data'[top][c] = data[top][c]
               ELSE data'[top] = Denoted(loc.value)
            /\ ret' = <<data>>]_vars

C27_Witness ==
    /\ Settled /\ fn = "updateField"
    /\ loc.path = <<"assets", "home">> /\ loc.value = << >>
    /\ ret # << >>
    /\ ret[1]["assets"]["home"] = 9000
    /\ data["assets"]["home"] = 0
    /\ data["assets"]["fourOhOneK"] = ret[1]["assets"]["fourOhOneK"]
    /\ data["age"] = 63
    /\ data["lastUpdated"] # ret[1]["lastUpdated"]

\* the stored snapshot carries hasSeenSplash = true
SeenPersisted ==
    /\ storageLoad(store) # << >>
    /\ "hasSeenSplash" \in DOMAIN storageLoad(store)[1]
    /\ storageLoad(store)[1]["hasSeenSplash"]

\* C28: the splash is shown at a startup that finds no snapshot or one
\* with hasSeenSplash false, and once a snapshot with hasSeenSplash true
\* has been persisted the splash is never shown again, in that session or
\* at any later startup, whatever the user edits in between.
C28_SplashOneTime ==
    /\ [][(effects # << >> /\ Head(effects) = "load" /\ ~SeenPersisted)
             => showSplash']_vars
    /\ [](SeenPersisted => [](~showSplash))

=============================================================================
